---- MODULE Spec2Model ----
(***************************************************************************)
(* Model of psrsigsim/pulsar/portraits.py: the PulsePortrait base class,   *)
(* the 1-D GaussPortrait (sum of Gaussian components with a cached,        *)
(* normalised profile), and the two unimplemented portrait classes.        *)
(*                                                                         *)
(* Numbers are exact rationals <<n, d>> (d > 0, lowest terms).  Phases,    *)
(* peaks and widths are rationals in units of one rotation.  np.exp is     *)
(* tabulated to two decimals on the half-integer arguments the model's     *)
(* inputs produce.  Arrays are tagged records: a 1-D array carries a       *)
(* sequence of numbers, a 2-D array a sequence of rows.                    *)
(***************************************************************************)
EXTENDS Integers, Sequences, FiniteSets, TLC

\* ------------------------------------------------------------------ bounds
\* number of operations performed on the portrait in one behaviour
MaxCalls == 3
\* number of init_profile calls completed before two concurrent ones start
MaxPreInits == 1

\* ------------------------------------------------------------- arithmetic
Abs(x) == IF x < 0 THEN -x ELSE x

RECURSIVE GCD(_, _)
GCD(a, b) == IF b = 0 THEN a ELSE GCD(b, a % b)

\* the rational n/d in lowest terms with a positive denominator (d # 0)
RNorm(n, d) ==
    LET g == GCD(Abs(n), Abs(d))
        s == IF d < 0 THEN -1 ELSE 1
    IN  <<(s * n) \div g, (s * d) \div g>>

RInt(k) == <<k, 1>>
ROne == <<1, 1>>
RSub(a, b) == RNorm(a[1] * b[2] - b[1] * a[2], a[2] * b[2])
RMul(a, b) ==
    LET g1 == GCD(Abs(a[1]), b[2])
        g2 == GCD(Abs(b[1]), a[2])
        h1 == IF g1 = 0 THEN 1 ELSE g1
        h2 == IF g2 = 0 THEN 1 ELSE g2
    IN  RNorm((a[1] \div h1) * (b[1] \div h2), (a[2] \div h2) * (b[2] \div h1))
\* true division of two numbers, divisor non-zero (common factors are
\* cancelled before multiplying, which keeps the integers small)
RDiv(a, b) ==
    LET gn == GCD(Abs(a[1]), Abs(b[1]))
        gd == GCD(a[2], b[2])
    IN  RNorm((a[1] \div gn) * (b[2] \div gd), (a[2] \div gd) * (b[1] \div gn))
RLess(a, b) ==
    LET gd == GCD(a[2], b[2])
        g0 == GCD(Abs(a[1]), Abs(b[1]))
        gn == IF g0 = 0 THEN 1 ELSE g0
    IN  (a[1] \div gn) * (b[2] \div gd) < (b[1] \div gn) * (a[2] \div gd)
RMax(a, b) == IF RLess(a, b) THEN b ELSE a

\* ----------------------------------------------------------------- values
None == [t |-> "None"]
Arr1(d) == [t |-> "arr1", d |-> d]
Arr2(d) == [t |-> "arr2", d |-> d]
IsArr(v) == v.t \in {"arr1", "arr2"}

\* the elements of an array, flattened, as a sequence
RECURSIVE Flatten(_)
Flatten(rows) == IF rows = <<>> THEN <<>> ELSE Head(rows) \o Flatten(Tail(rows))

Elems(a) == IF a.t = "arr2" THEN Flatten(a.d) ELSE a.d

RECURSIVE SeqMax(_)
SeqMax(s) == IF Len(s) = 1 THEN s[1] ELSE RMax(s[1], SeqMax(Tail(s)))

\* ndarray.max() / np.amax(a): the maximum over every element of a
ArrMax(a) == SeqMax(Elems(a))

\* a / x and a /= x for an array a and a number x: elementwise true division
ArrDiv(a, x) ==
    IF a.t = "arr2"
    THEN Arr2([i \in 1..Len(a.d) |-> [j \in 1..Len(a.d[i]) |-> RDiv(a.d[i][j], x)]])
    ELSE Arr1([j \in 1..Len(a.d) |-> RDiv(a.d[j], x)])

\* len(a): the length of the first axis
ArrLen(a) == Len(a.d)

\* ----------------------------------------------------------- input domains
Quarter == <<1, 4>>
Half == <<1, 2>>
PeakSet == {Quarter, Half}
WidthSet == {Quarter}
AmpSet == {RInt(-2), RInt(1), RInt(2)}
NCompSet == {1, 2}
NphaseSet == {1, 2, 4}
\* explicit phase queries: on and off the peaks, of lengths 1 and 3
QuerySet == { <<Half>>, <<RInt(0), Quarter, Half>> }
ParamKinds == {"scalar", "list", "ndarray"}

\* ------------------------------------------------------- the class layout
\* the class statements of the module, in source order
ClassDecls ==
    << [name |-> "PulsePortrait", impl |-> "PulsePortrait"],
       [name |-> "GaussPortrait", impl |-> "GaussPortrait1D"],
       [name |-> "GaussPortrait", impl |-> "GaussPortrait2D"],
       [name |-> "UserPortrait",  impl |-> "UserPortrait"] >>

ClassNames == {ClassDecls[i].name : i \in 1..Len(ClassDecls)}

BindingFirst(name) ==
    LET idx == {i \in 1..Len(ClassDecls) : ClassDecls[i].name = name}
        first == CHOOSE i \in idx : \A j \in idx : i <= j
    IN  ClassDecls[first].impl

\* the class a module-level name is bound to once the module has been
\* executed: each class statement rebinds its name, so the last one stands
Binding(name) ==
    LET idx == {i \in 1..Len(ClassDecls) : ClassDecls[i].name = name}
        last == CHOOSE i \in idx : \A j \in idx : j <= i
    IN  ClassDecls[last].impl

\* the methods each class body defines, and its base class among the
\* classes of this module
Methods(c) ==
    CASE c = "PulsePortrait"   -> {"__call__", "calc_portrait"}
      [] c = "GaussPortrait1D" -> {"__init__", "init_profile", "calc_profile"}
      [] c = "GaussPortrait2D" -> {"__init__"}
      [] c = "UserPortrait"    -> {"__init__"}

BaseOf(c) == IF c = "GaussPortrait1D" THEN "PulsePortrait" ELSE "object"

\* the class whose body supplies method m to an instance of class c
RECURSIVE Resolve(_, _)
Resolve(c, m) ==
    IF c = "object" THEN "object"
    ELSE IF m \in Methods(c) THEN c ELSE Resolve(BaseOf(c), m)

\* data attributes set in the class bodies
ClassAttrs(c) == IF c \in {"PulsePortrait", "GaussPortrait1D"} THEN {"_profile"} ELSE {}

\* hasattr(self, name) for an instance of class c with instance attributes inst
HasAttr(c, inst, name) == name \in inst \cup ClassAttrs(c)

\* ----------------------------------------------------- the Gaussian kernel
\* np.exp(-0.5 * z**2) to two decimals, for 2|z| = 0, 1, ..., 6
ExpTable == << <<1, 1>>, <<22, 25>>, <<61, 100>>, <<8, 25>>, <<7, 50>>, <<1, 25>>, <<1, 100>> >>

Kernel(ph, pk, w) ==
    LET z == RDiv(RSub(ph, pk), w)
        q == RMul(RInt(2), z)
    IN  ExpTable[Abs(q[1]) + 1]

\* np.arange(Nphase)/Nphase
Grid(Nphase) == [i \in 1..Nphase |-> RNorm(i - 1, Nphase)]

Raise(e) == [exc |-> e, val |-> None, warned |-> 0]
Return(v) == [exc |-> "none", val |-> v, warned |-> 0]

\* GaussPortrait.calc_profile(phases) on a portrait whose parameters are of
\* the given kind, with instance attributes inst and cached _Amax
CalcProfile(kind, pk, w, a, inst, Amax, phases) ==
    LET \* self.amp[:,np.newaxis]: only an ndarray takes a tuple index
        subscript == IF kind = "ndarray" THEN "none" ELSE "TypeError"
    IN  IF subscript = "TypeError"
        THEN \* except TypeError: profile += ... with no binding of profile
             Raise("UnboundLocalError")
        ELSE LET profile == Arr2([i \in 1..Len(a) |->
                                   [j \in 1..Len(phases) |->
                                     RMul(a[i], Kernel(phases[j], pk[i], w[i]))]])
                 A == IF HasAttr("GaussPortrait1D", inst, "_Amax")
                      THEN Amax ELSE ArrMax(profile)
             IN  Return(ArrDiv(profile, A))

\* PulsePortrait.calc_portrait(phases)
CalcPortrait(phases) == Raise("NotImplementedError")

\* the cache of a portrait: instance attributes, _profile and _Amax
Cache(inst, prof, Amax) == [attrs |-> inst, profile |-> prof, Amax |-> Amax]

\* GaussPortrait.init_profile(Nphase): the outcome and the cache it leaves
InitProfileOn(kind, pk, w, a, c, Nphase) ==
    LET r == CalcProfile(kind, pk, w, a, c.attrs, c.Amax, Grid(Nphase))
    IN  IF r.exc # "none"
        THEN [out |-> r, cache |-> c]
        ELSE LET m == ArrMax(r.val)
             IN  [out |-> Return(None),
                  cache |-> Cache(c.attrs \cup {"_profile", "_Amax"}, ArrDiv(r.val, m), m)]

\* the value an attribute lookup yields once hasattr holds
AttrValue(cache, name) ==
    CASE name = "_profile" -> cache.profile
      [] name = "_Amax"    -> Arr1(<<cache.Amax>>)
      [] OTHER             -> None

\* PulsePortrait.__call__(phases); phases is None or an array of phases
CallOn(c, cache, phases) ==
    IF phases.t = "None"
    THEN IF ~HasAttr(c, cache.attrs, "_portrait")
         THEN \* the test `self._portrait is None` looks the attribute up
              Raise("AttributeError")
         ELSE LET v == AttrValue(cache, "_portrait")
              IN  [exc |-> "none", val |-> v,
                   warned |-> IF v.t = "None" THEN 1 ELSE 0]
    ELSE IF Resolve(c, "calc_portrait") = "PulsePortrait"
         THEN CalcPortrait(phases.d)
         ELSE Raise("AttributeError")

\* calling the class bound to a module-level name
ConstructOn(name) ==
    LET impl == Binding(name)
    IN  IF impl \in {"GaussPortrait2D", "UserPortrait"}
        THEN Raise("NotImplementedError")
        ELSE Return([t |-> "object", cls |-> impl])

\* ------------------------------------------------------------------ state
VARIABLES
    cls,          \* class of the portrait object
    paramKind,    \* scalar, list or ndarray parameters (none: base object)
    self_peak, self_width, self_amp,   \* _peak, _width, _amp
    attrs,        \* names of the instance attributes init_profile has set
    self_profile, \* _profile (None from the class body until set)
    self_Amax,    \* _Amax, meaningful only when "_Amax" \in attrs
    ret,          \* outcome of the most recent operation
    prevRet,      \* outcome of the operation before it
    pre,          \* the cache as it was before the most recent operation
    calls,        \* operations performed so far
    lastInit,     \* Nphase of the most recent completed init_profile, 0 if none
    sameNphase,   \* every completed init_profile so far used the same Nphase
    pc, tN, tmp,  \* two concurrent init_profile calls: position, Nphase, local
    base,         \* the cache when the first concurrent call started
    overlap       \* a concurrent call has stepped while the other was mid-call

vars == <<cls, paramKind, self_peak, self_width, self_amp, attrs, self_profile,
          self_Amax, ret, prevRet, pre, calls, lastInit, sameNphase, pc, tN, tmp,
          base, overlap>>

params == <<cls, paramKind, self_peak, self_width, self_amp>>
threadVars == <<pc, tN, tmp, base, overlap>>
history == <<lastInit, sameNphase>>

Threads == {1, 2}
Other(t) == 3 - t

NoRet == [op |-> "none", n |-> 0, ph |-> None, name |-> "", exc |-> "none",
          val |-> None, warned |-> 0]

Outcome(op, n, ph, name, r) ==
    [op |-> op, n |-> n, ph |-> ph, name |-> name, exc |-> r.exc,
     val |-> r.val, warned |-> r.warned]

CurCache == Cache(attrs, self_profile, self_Amax)

SeqsOf(S, n) == [1..n -> S]

\* GaussPortrait.__init__ stores its arguments unchanged; PulsePortrait has
\* no constructor and no parameters.  _profile is the class attribute None.
Init ==
    /\ \/ /\ cls = "GaussPortrait1D"
          /\ \/ /\ paramKind = "scalar"
                /\ self_peak \in PeakSet
                /\ self_width \in WidthSet
                /\ self_amp \in AmpSet
             \/ /\ paramKind \in {"list", "ndarray"}
                /\ \E n \in NCompSet :
                      /\ self_peak \in SeqsOf(PeakSet, n)
                      /\ self_width \in SeqsOf(WidthSet, n)
                      /\ self_amp \in SeqsOf(AmpSet, n)
       \/ /\ cls = "PulsePortrait"
          /\ paramKind = "none"
          /\ self_peak = <<>> /\ self_width = <<>> /\ self_amp = <<>>
    /\ attrs = {}
    /\ self_profile = None
    /\ self_Amax = ROne
    /\ ret = NoRet
    /\ prevRet = NoRet
    /\ pre = Cache({}, None, ROne)
    /\ calls = 0
    /\ lastInit = 0
    /\ sameNphase = TRUE
    /\ pc = [t \in Threads |-> "idle"]
    /\ tN = [t \in Threads |-> 0]
    /\ tmp = [t \in Threads |-> None]
    /\ base = Cache({}, None, ROne)
    /\ overlap = FALSE

Idle == \A t \in Threads : pc[t] = "idle"

\* bookkeeping shared by the operations: record the outcome, keep the cache
Record(o, c) ==
    /\ ret' = o
    /\ prevRet' = ret
    /\ pre' = CurCache
    /\ attrs' = c.attrs
    /\ self_profile' = c.profile
    /\ self_Amax' = c.Amax
    /\ calls' = calls + 1
    /\ UNCHANGED params
    /\ UNCHANGED threadVars

DoInitProfile(Nphase) ==
    IF Resolve(cls, "init_profile") = "GaussPortrait1D"
    THEN LET r == InitProfileOn(paramKind, self_peak, self_width, self_amp,
                                CurCache, Nphase)
         IN  /\ Record(Outcome("init_profile", Nphase, None, "", r.out), r.cache)
             /\ lastInit' = IF r.out.exc = "none" THEN Nphase ELSE lastInit
             /\ sameNphase' = (sameNphase /\
                                (r.out.exc = "none" => lastInit \in {0, Nphase}))
    ELSE /\ Record(Outcome("init_profile", Nphase, None, "", Raise("AttributeError")),
                   CurCache)
         /\ UNCHANGED history

\* portrait.init_profile(Nphase)
InitProfile ==
    /\ Idle /\ calls < MaxCalls
    /\ \E Nphase \in NphaseSet : DoInitProfile(Nphase)

\* portrait.calc_profile(phases)
CalcProfileCall ==
    /\ Idle /\ calls < MaxCalls
    /\ \E q \in QuerySet :
          LET r == IF Resolve(cls, "calc_profile") = "GaussPortrait1D"
                   THEN CalcProfile(paramKind, self_peak, self_width, self_amp,
                                    attrs, self_Amax, q)
                   ELSE Raise("AttributeError")
          IN  Record(Outcome("calc_profile", 0, Arr1(q), "", r), CurCache)
    /\ UNCHANGED history

\* portrait() and portrait(phases)
Call ==
    /\ Idle /\ calls < MaxCalls
    /\ \E phases \in {None} \cup {Arr1(q) : q \in QuerySet} :
          Record(Outcome("__call__", 0, phases, "", CallOn(cls, CurCache, phases)),
                 CurCache)
    /\ UNCHANGED history

\* portrait.calc_portrait(phases)
CalcPortraitCall ==
    /\ Idle /\ calls < MaxCalls
    /\ \E q \in QuerySet :
          Record(Outcome("calc_portrait", 0, Arr1(q), "",
                         IF Resolve(cls, "calc_portrait") = "PulsePortrait"
                         THEN CalcPortrait(q) ELSE Raise("AttributeError")),
                 CurCache)
    /\ UNCHANGED history

\* GaussPortrait(...), UserPortrait(), PulsePortrait() through the module
Construct ==
    /\ Idle /\ calls < MaxCalls
    /\ \E name \in ClassNames :
          Record(Outcome("construct", 0, None, name, ConstructOn(name)), CurCache)
    /\ UNCHANGED history

Next == InitProfile \/ CalcProfileCall \/ Call \/ CalcPortraitCall \/ Construct

Spec == Init /\ [][Next]_vars

\* ------------------------------------------- two concurrent init_profile
\* Each call runs the statements of init_profile one at a time, with no
\* lock: evaluate calc_profile(ph) into a local, store it in _profile,
\* store _profile.max() in _Amax, divide _profile by _Amax in place.

Running(t) == pc[t] \notin {"idle", "done", "raised"}

Advance(t, to) ==
    /\ pc' = [pc EXCEPT ![t] = to]
    /\ overlap' = (overlap \/ Running(Other(t)))
    /\ UNCHANGED <<params, ret, prevRet, pre, calls, history>>

\* ph = np.arange(Nphase)/Nphase, and the call self.calc_profile(ph)
TEval(t) ==
    /\ pc[t] = "idle"
    /\ \E Nphase \in NphaseSet :
          LET r == CalcProfile(paramKind, self_peak, self_width, self_amp,
                               attrs, self_Amax, Grid(Nphase))
          IN  /\ tN' = [tN EXCEPT ![t] = Nphase]
              /\ tmp' = [tmp EXCEPT ![t] = r.val]
              /\ Advance(t, IF r.exc = "none" THEN "store_profile" ELSE "raised")
    /\ base' = IF Idle THEN CurCache ELSE base
    /\ UNCHANGED <<attrs, self_profile, self_Amax>>

\* self._profile = <the local>
TStoreProfile(t) ==
    /\ pc[t] = "store_profile"
    /\ self_profile' = tmp[t]
    /\ attrs' = attrs \cup {"_profile"}
    /\ Advance(t, "store_Amax")
    /\ UNCHANGED <<self_Amax, tN, tmp, base>>

\* self._Amax = self._profile.max()
TStoreAmax(t) ==
    /\ pc[t] = "store_Amax"
    /\ self_Amax' = ArrMax(self_profile)
    /\ attrs' = attrs \cup {"_Amax"}
    /\ Advance(t, "divide")
    /\ UNCHANGED <<self_profile, tN, tmp, base>>

\* the in-place division left out
QuotientSkipped(prof, Amax) == prof

\* the quotient the in-place division leaves in the array
Quotient(prof, Amax) == ArrDiv(prof, Amax)

\* self._profile /= self.Amax
TDivide(t) ==
    /\ pc[t] = "divide"
    /\ self_profile' = Quotient(self_profile, self_Amax)
    /\ Advance(t, "done")
    /\ UNCHANGED <<attrs, self_Amax, tN, tmp, base>>

\* init_profile calls made one after the other before the concurrent ones
PreInit ==
    /\ Idle /\ calls < MaxPreInits
    /\ \E Nphase \in NphaseSet : DoInitProfile(Nphase)

NextConc ==
    \/ PreInit
    \/ \E t \in Threads : TEval(t)
    \/ \E t \in Threads : TStoreProfile(t)
    \/ \E t \in Threads : TStoreAmax(t)
    \/ \E t \in Threads : TDivide(t)

SpecConc == Init /\ [][NextConc]_vars

\* ------------------------------------------------- what the text promises
\* The component parameters as sequences, one entry per component.
CompSeq(x) == IF paramKind = "scalar" THEN <<x>> ELSE x

RAdd(a, b) == RNorm(a[1] * b[2] + b[1] * a[2], a[2] * b[2])

RECURSIVE SumOver(_, _, _)
SumOver(f, i, n) == IF i > n THEN RInt(0) ELSE RAdd(f[i], SumOver(f, i + 1, n))

\* sum over the components i of amp[i] * kernel_i(phase), one value per phase
RawSum(phases) ==
    LET pk == CompSeq(self_peak)
        w == CompSeq(self_width)
        a == CompSeq(self_amp)
    IN  Arr1([j \in 1..Len(phases) |->
              SumOver([i \in 1..Len(a) |-> RMul(a[i], Kernel(phases[j], pk[i], w[i]))],
                      1, Len(a))])

\* the divisor promised for an explicit query: the cached Amax once
\* init_profile has completed, else the maximum of the fresh raw values
Divisor(phases) == IF lastInit # 0 THEN self_Amax ELSE ArrMax(RawSum(phases))

SameValue(u, v) == u.t = v.t /\ u = v
SameCache(c, d) ==
    /\ c.attrs = d.attrs
    /\ c.Amax = d.Amax
    /\ SameValue(c.profile, d.profile)

IsGauss == cls = "GaussPortrait1D"

\* C1: on a portrait whose init_profile has never completed, portrait()
\* returns None, logs exactly one warning and raises nothing.
C1_UninitCallWarns ==
    (ret.op = "__call__" /\ ret.ph.t = "None" /\ lastInit = 0)
        => (ret.exc = "none" /\ ret.val.t = "None" /\ ret.warned = 1)

\* C2: once init_profile has completed on a 1-D Gaussian portrait,
\* portrait() returns the cached profile, the value of the profile
\* accessor, with no warning and no exception.
C2_CallReturnsCache ==
    (IsGauss /\ ret.op = "__call__" /\ ret.ph.t = "None" /\ lastInit # 0)
        => (ret.exc = "none" /\ ret.warned = 0 /\ SameValue(ret.val, self_profile))

\* C3: portrait(phases) on a 1-D Gaussian portrait raises nothing and
\* returns the raw component sums at those phases over the cached Amax, or
\* over their own maximum before any init_profile.
C3_CallDelegates ==
    (IsGauss /\ ret.op = "__call__" /\ ret.ph.t = "arr1")
        => (/\ ret.exc = "none"
            /\ IsArr(ret.val)
            /\ Elems(ret.val) = Elems(ArrDiv(RawSum(ret.ph.d), Divisor(ret.ph.d))))

\* C4: with array parameters of N >= 1 components, calc_profile(phases)
\* returns one value per query phase, the component sum at that phase over
\* the normalisation divisor.
C4_OneValuePerPhase ==
    (IsGauss /\ ret.op = "calc_profile" /\ paramKind = "ndarray")
        => (/\ ret.exc = "none"
            /\ IsArr(ret.val)
            /\ ArrLen(ret.val) = Len(ret.ph.d)
            /\ Elems(ret.val) = Elems(ArrDiv(RawSum(ret.ph.d), Divisor(ret.ph.d))))

\* C5: with scalar parameters, calc_profile and init_profile raise nothing
\* and calc_profile yields the values a one-component array portrait
\* yields: amp * kernel(phase) over the normalisation divisor.
C5_ScalarLikeOneComponent ==
    (IsGauss /\ paramKind = "scalar" /\ ret.op \in {"calc_profile", "init_profile"})
        => (/\ ret.exc = "none"
            /\ ret.op = "calc_profile" =>
                  /\ IsArr(ret.val)
                  /\ Elems(ret.val) =
                        Elems(CalcProfile("ndarray", <<self_peak>>, <<self_width>>,
                                          <<self_amp>>, attrs, self_Amax, ret.ph.d).val))

\* C6: once an init_profile has completed, the cached Amax is the maximum
\* of the raw component sums over the grid i/Nphase of the most recent
\* init_profile, and the cached profile is those raw sums over Amax.
C6_AmaxIsRawMaximum ==
    lastInit # 0
        => (/\ "_Amax" \in attrs
            /\ self_Amax = ArrMax(RawSum(Grid(lastInit)))
            /\ IsArr(self_profile)
            /\ Elems(self_profile) = Elems(ArrDiv(RawSum(Grid(lastInit)), self_Amax)))

\* C7: two init_profile(Nphase) calls in a row leave the same cached
\* profile and Amax after the second as after the first, and every explicit
\* calc_profile query answers the same after either.
C7_InitIdempotent ==
    (/\ ret.op = "init_profile" /\ prevRet.op = "init_profile"
     /\ ret.n = prevRet.n /\ ret.exc = "none" /\ prevRet.exc = "none")
        => (/\ SameCache(CurCache, pre)
            /\ \A q \in QuerySet :
                  CalcProfile(paramKind, self_peak, self_width, self_amp,
                              attrs, self_Amax, q)
                  = CalcProfile(paramKind, self_peak, self_width, self_amp,
                                pre.attrs, pre.Amax, q))

\* C8: after any number of completed init_profile(Nphase) calls with one
\* Nphase, whatever the sign of the amplitudes, the cached profile has
\* maximum exactly 1.
C8_ProfileMaxIsOne ==
    (lastInit # 0 /\ sameNphase)
        => (IsArr(self_profile) /\ ArrMax(self_profile) = ROne)

\* C9: calc_portrait raises NotImplementedError for every argument, and so
\* do the constructors reached through the module names GaussPortrait and
\* UserPortrait: the name GaussPortrait never yields the 1-D class.
C9_NotImplemented ==
    /\ ret.op = "calc_portrait" => ret.exc = "NotImplementedError"
    /\ (ret.op = "construct" /\ ret.name \in {"GaussPortrait", "UserPortrait"})
          => (ret.exc = "NotImplementedError" /\ ret.val.t # "object")

C9_Witness ==
    /\ ret.op = "construct" /\ ret.name = "GaussPortrait"
    /\ ret.exc = "NotImplementedError"
    /\ prevRet.op = "calc_portrait" /\ prevRet.exc = "NotImplementedError"

\* the cache two init_profile calls leave when run one after the other
SerialCache(c, n1, n2) ==
    InitProfileOn(paramKind, self_peak, self_width, self_amp,
                  InitProfileOn(paramKind, self_peak, self_width, self_amp, c, n1).cache,
                  n2).cache

Finished == \A t \in Threads : pc[t] \in {"done", "raised"}

Diverged ==
    /\ ~SameCache(CurCache, SerialCache(base, tN[1], tN[2]))
    /\ ~SameCache(CurCache, SerialCache(base, tN[2], tN[1]))

====
